---- MODULE Spec2Model ----
(***************************************************************************)
(* A model of mutagen's filesystem scanner (sync/scan.go), of the          *)
(* endpoint connection layer (session/connect.go), of the URL parser and   *)
(* formatter (package url) and of the symlink normalizer.                  *)
(*                                                                         *)
(* Scan is sequential code, but it runs against a filesystem that other    *)
(* processes change while it runs.  Each action of the scanner is the code *)
(* between two system calls (stat, readdir, lstat, open/read, readlink);   *)
(* the filesystem actions may happen between any two of them.              *)
(*                                                                         *)
(* Paths are sequences of names: <<>> is the root (""), <<"d","a">> is     *)
(* "d/a", and path.Join(path, name) is Append(path, name).                 *)
(***************************************************************************)
EXTENDS Integers, Sequences, FiniteSets, TLC

----------------------------------------------------------------------------
(* Bounds of the model. *)

\* Number of changes other processes make to the filesystem in one behaviour.
MaxFsChanges == 1

\* Number of reconnect calls in one behaviour.
MaxCalls == 2

\* Number of Scan calls in one behaviour: when the filesystem changes at any
\* time, and when it changes only between two calls.
MaxScans == 2
MaxQuietScans == 3

\* Names a directory may hold (upper-case letters are not needed).
Names == {"a", "d", "l"}

\* The paths of the model's filesystem: the root, "a" and "d" in it, and
\* "a" and "l" in "d".
Paths == {<<>>, <<"a">>, <<"d">>, <<"d", "a">>, <<"d", "l">>}

\* File contents (byte sequences) and modification times.
Contents == {<<1>>, <<2>>, <<1, 2>>}
Mtimes == {1, 2}

----------------------------------------------------------------------------
(* The filesystem. *)

\* A node has a kind (none, file, dir, symlink, other: a socket, device or
\* fifo), and contents, a modification time, an execute permission and a link
\* target as far as its kind has them.  A link target is the sequence of the
\* tokens of its text: names, "..", "/" and "\\".
NoTarget == <<>>
NoNode == [kind |-> "none", content |-> <<>>, mtime |-> 0, exec |-> FALSE, target |-> NoTarget]
FileNode(c, t, x) == [kind |-> "file", content |-> c, mtime |-> t, exec |-> x, target |-> NoTarget]
DirNode == [kind |-> "dir", content |-> <<>>, mtime |-> 1, exec |-> TRUE, target |-> NoTarget]
SymlinkNode(tg) == [kind |-> "symlink", content |-> <<>>, mtime |-> 1, exec |-> TRUE, target |-> tg]
OtherNode == [kind |-> "other", content |-> <<>>, mtime |-> 1, exec |-> FALSE, target |-> NoTarget]

Parent(p) == SubSeq(p, 1, Len(p) - 1)
BaseName(p) == IF p = <<>> THEN "" ELSE p[Len(p)]
IsPrefix(p, q) == Len(p) <= Len(q) /\ SubSeq(q, 1, Len(p)) = p

\* os.FileInfo as returned by os.Stat / os.Lstat for an existing node: the
\* type bits of the mode, the execute permission, the modification time and
\* the size (the length of a file; some number for everything else).
FileInfo(node) ==
    [type |-> node.kind, exec |-> node.exec, mtime |-> node.mtime,
     size |-> IF node.kind = "file" THEN Len(node.content) ELSE 4]

\* filesystem.DirectoryContents: the names in a directory.
DirectoryContents(f, p) ==
    {n \in Names : Append(p, n) \in Paths /\ f[Append(p, n)].kind # "none"}

----------------------------------------------------------------------------
(* Entries, caches and the hasher. *)

Put(f, k, v) == [x \in DOMAIN f \cup {k} |-> IF x = k THEN v ELSE f[x]]

NilEntry == [kind |-> "nil"]
FileEntry(executable, digest) ==
    [kind |-> "File", executable |-> executable, digest |-> digest]
SymlinkEntry(target) == [kind |-> "Symlink", target |-> target]
DirectoryEntry(contents) == [kind |-> "Directory", contents |-> contents]

\* A cache with no entries, and the contents of a directory with no children.
EmptyCache == [p \in {} |-> NoNode]
NoContents == [n \in {} |-> NilEntry]

CacheEntry(info, digest) ==
    [mode |-> [type |-> info.type, exec |-> info.exec],
     mtime |-> info.mtime, size |-> info.size, digest |-> digest]

\* A digest is a slice of bytes, which may be nil; a slice that is not nil
\* may be empty.
NilDigest == [nil |-> TRUE, bytes |-> <<>>]
Digest(bytes) == [nil |-> FALSE, bytes |-> bytes]

\* hash.Hash: the state of a hasher is the bytes written since the last
\* Reset; Sum is an ideal hash of that state, never nil and never empty.
\* Faulty variant: the hasher is not reset.
HashResetForgotten(h) == h
HashReset(h) == <<>>
HashWrite(h, bytes) == h \o bytes
HashSum(h) == Digest(<<Len(h)>> \o h)

\* The match of scanner.file: the cache has the path, with the same type
\* bits, the same modification time and the same size.
Match(c, path, info) ==
    /\ path \in DOMAIN c
    /\ c[path].mode.type = info.type
    /\ c[path].mtime = info.mtime
    /\ c[path].size = info.size

\* Faulty variant: the cache is never consulted.
CachedDigestNever(c, path, info) == NilDigest

\* The cached digest scanner.file takes on a match (nil without one).
CachedDigest(c, path, info) ==
    IF Match(c, path, info) THEN c[path].digest ELSE NilDigest

\* Faulty variant: the new cache is keyed by the base name, not by the path.
AddCacheEntryByName(nc, path, info, digest) ==
    Put(nc, <<BaseName(path)>>, CacheEntry(info, digest))

\* The write of scanner.file to the new cache.
AddCacheEntry(nc, path, info, digest) == Put(nc, path, CacheEntry(info, digest))

----------------------------------------------------------------------------
(* The path ignorer.  A pattern is a base name or the glob "*", and may be  *)
(* negated; a list of patterns is malformed when one of its patterns is.   *)

Pattern(n) == [negated |-> FALSE, name |-> n, ok |-> TRUE]
Negated(n) == [negated |-> TRUE, name |-> n, ok |-> TRUE]
Malformed == [negated |-> FALSE, name |-> "[", ok |-> FALSE]

IgnoreChoices ==
    {<<>>, <<Pattern("a")>>, <<Pattern("*")>>,
     <<Pattern("d"), Pattern("a"), Negated("a")>>, <<Malformed>>}

\* newPathIgnorer fails on a malformed pattern.
IgnoresValid(ig) == \A i \in 1..Len(ig) : ig[i].ok

\* "*" matches every path, the empty path of the root too; a name matches
\* the paths it is the base name of.
PatternMatches(pat, path) ==
    pat.name = "*" \/ (path # <<>> /\ pat.name = BaseName(path))

\* pathIgnorer.ignored: the last matching pattern decides.
RECURSIVE IgnoredFrom(_, _, _, _)
IgnoredFrom(ig, path, i, sofar) ==
    IF i > Len(ig) THEN sofar
    ELSE IgnoredFrom(ig, path, i + 1,
                     IF PatternMatches(ig[i], path) THEN ~ig[i].negated ELSE sofar)

ignored(ig, path) == IgnoredFrom(ig, path, 1, FALSE)

----------------------------------------------------------------------------
(* The state. *)

VARIABLES
    fs,                 \* the filesystem: path -> node
    fsVersion,          \* number of changes made to fs by other processes
    ignores,            \* Scan's ignores argument (the session's configuration)
    ignoreSize,         \* Scan's ignoreSize argument (the session's configuration)
    symlinksSupported,  \* the platform constant symlinksSupported
    hasher,             \* the caller's hash.Hash, shared by all scans
    lastCache,          \* the caller's copy of the last cache Scan returned
    numScans,           \* number of Scan calls made so far
    scanLimit,          \* number of Scan calls the caller makes
    pc,                 \* where the running Scan is: idle, list, walk, open, readlink, done
    cache,              \* scanner.cache, the input cache of the running Scan
    newCache,           \* scanner.newCache
    stack,              \* the calls of scanner.directory in progress, innermost last
    pending,            \* the call of scanner.file or scanner.symlink in progress
    ret,                \* what the last Scan returned
    prev,               \* what the Scan before it returned
    statLog,            \* path -> the os.FileInfo given to scanner.file in this Scan
    opened,             \* paths this Scan opened
    vanished,           \* paths whose lstat found nothing in this Scan
    rootStat,           \* what the os.Stat of the root returned in this Scan
    lstatLog,           \* path -> the os.FileInfo an os.Lstat returned in this Scan
    failure,            \* the system call that failed in this Scan, and its path
    ctxDone,            \* the context given to reconnect is cancelled
    urls,               \* call -> the protocol of the URL given to reconnect
    callerPc,           \* call -> where reconnect is: notcalled, waiting, returned
    callerRet,          \* call -> what reconnect returned
    goPc,               \* call -> where its goroutine is: none, connect, dialed,
                        \*         select, done
    goResult,           \* call -> what connect returned in the goroutine
    endpoints,          \* call -> the endpoint connect made: none, open, closed
    dials,              \* call -> number of agent.DialSSH calls made
    symlinkMode,        \* the symlink mode of the session
    linkPath,           \* the path of the link given to the normalizer
    linkTarget,         \* the target given to the normalizer
    normalized,         \* what the normalizer returned
    raw,                \* the string given to url.Parse
    parsed,             \* what Parse returned for it
    formatted,          \* what Format returned for the parsed URL
    reparsed,           \* what Parse returned for the formatted URL
    urlPc               \* where the caller of Parse and Format is

config == <<ignores, ignoreSize, symlinksSupported>>
scanVars == <<hasher, lastCache, numScans, scanLimit, pc, cache, newCache, stack, pending,
              ret, prev, statLog, opened, vanished, rootStat, lstatLog, failure>>

connVars == <<ctxDone, urls, callerPc, callerRet, goPc, goResult, endpoints, dials>>

symlinkVars == <<symlinkMode, linkPath, linkTarget, normalized>>
urlVars == <<raw, parsed, formatted, reparsed, urlPc>>
pureVars == <<symlinkVars, urlVars>>

\* A failed system call (stat, readdir, lstat, open, read, readlink), or a
\* read that ended with another number of bytes than the stat had (size).
Failure(call, path) == [call |-> call, path |-> path]
NoFailure == Failure("none", <<>>)

NoPending == [path |-> <<>>, name |-> "", info |-> FileInfo(NoNode)]

\* What Scan returns: the entry, the cache (cacheNil when it is nil), the
\* error ("" for none), with the filesystem's version when the call began and
\* when it returned.
Result(entry, c, cacheNil, err, startV, endV) ==
    [entry |-> entry, cache |-> c, cacheNil |-> cacheNil, err |-> err,
     startV |-> startV, endV |-> endV]
NoResult == Result(NilEntry, EmptyCache, TRUE, "none", 0, 0)

\* The record kept of the call before the last: what it returned, and the
\* paths whose digest it took from its input cache.
Previous(r, reused) == [ret |-> r, reused |-> reused]

\* A call of scanner.directory: its path, the name it has in its parent, the
\* listed names still to visit, and the contents computed so far.
Frame(path, name) ==
    [path |-> path, name |-> name, todo |-> {}, contents |-> NoContents]

\* The initial trees: no root, a file as root, a fifo as root, and a
\* directory holding the file "a" and the directory "d", which holds the
\* file "a" and "l", a symlink or a fifo.
SymlinkTargets == {<<>>, <<"a">>, <<"..", "/", "..", "/", "etc", "/", "passwd">>}
Tree(root, l) ==
    [p \in Paths |->
        IF root # "dir" THEN
            IF p # <<>> \/ root = "none" THEN NoNode
            ELSE IF root = "file" THEN FileNode(<<1>>, 1, FALSE) ELSE OtherNode
        ELSE IF p = <<>> \/ p = <<"d">> THEN DirNode
        ELSE IF p = <<"a">> THEN FileNode(<<1>>, 1, FALSE)
        ELSE IF p = <<"d", "a">> THEN FileNode(<<1, 2>>, 1, TRUE)
        ELSE l]
InitialTrees ==
    {Tree(r, NoNode) : r \in {"none", "file", "other"}}
        \cup {Tree("dir", l) : l \in {SymlinkNode(tg) : tg \in SymlinkTargets}
                                        \cup {OtherNode}}

InitScanWith(limit, caches) ==
    /\ scanLimit = limit
    /\ fs \in InitialTrees
    /\ fsVersion = 0
    /\ ignores \in IgnoreChoices
    /\ ignoreSize \in {0, 2}
    /\ symlinksSupported \in BOOLEAN
    /\ hasher = <<>>
    /\ lastCache \in caches
    /\ numScans = 0
    /\ pc = "idle"
    /\ cache = EmptyCache
    /\ newCache = EmptyCache
    /\ stack = <<>>
    /\ pending = NoPending
    /\ ret = NoResult
    /\ prev = Previous(NoResult, {})
    /\ statLog = EmptyCache
    /\ opened = {}
    /\ vanished = {}
    /\ rootStat = "unstatted"
    /\ lstatLog = EmptyCache
    /\ failure = NoFailure

\* The caller has no cache yet.
InitScan(limit) == InitScanWith(limit, {EmptyCache})

\* Caches that no Scan returned: entries for the root and for "a" that have
\* the type, time and size of the files of the initial trees, with a digest
\* that is nil, empty or of one byte, and entries of another type.
ForeignEntries ==
    {CacheEntry(FileInfo(FileNode(<<1>>, 1, FALSE)), d) :
        d \in {NilDigest, Digest(<<>>), Digest(<<7>>)}}
        \cup {CacheEntry(FileInfo(DirNode), Digest(<<7>>))}
ForeignCaches ==
    {EmptyCache} \cup {Put(Put(EmptyCache, <<>>, e), <<"a">>, e) : e \in ForeignEntries}

----------------------------------------------------------------------------
(* The connection layer: what reconnect and connect work on. *)

Calls == 1..MaxCalls
\* The values of url.Protocol: the three of the enumeration, and a number
\* that is none of them, which %s prints as it is.
Protocols == {"Local", "SSH", "Custom", "7"}

\* connectResult, and what connect and reconnect return: an endpoint ("nil"
\* for none, or the local or remote endpoint connect made) and an error
\* ("" for none).  inFlight records whether connect had not returned yet when
\* reconnect did.
NilEndpoint == "nil"
ConnectResult(endpoint, error) == [endpoint |-> endpoint, error |-> error]
NoConnectResult == ConnectResult(NilEndpoint, "none")
ReconnectReturn(endpoint, error, inFlight) ==
    [endpoint |-> endpoint, error |-> error, inFlight |-> inFlight]

InitReconnect ==
    /\ ctxDone = FALSE
    /\ urls \in [Calls -> Protocols]
    /\ callerPc = [k \in Calls |-> "notcalled"]
    /\ callerRet = [k \in Calls |-> ReconnectReturn(NilEndpoint, "none", FALSE)]
    /\ goPc = [k \in Calls |-> "none"]
    /\ goResult = [k \in Calls |-> NoConnectResult]
    /\ endpoints = [k \in Calls |-> "none"]
    /\ dials = [k \in Calls |-> 0]

\* reconnect is not called.
NoReconnect ==
    /\ ctxDone = FALSE
    /\ urls = [k \in Calls |-> "Local"]
    /\ callerPc = [k \in Calls |-> "notcalled"]
    /\ callerRet = [k \in Calls |-> ReconnectReturn(NilEndpoint, "none", FALSE)]
    /\ goPc = [k \in Calls |-> "none"]
    /\ goResult = [k \in Calls |-> NoConnectResult]
    /\ endpoints = [k \in Calls |-> "none"]
    /\ dials = [k \in Calls |-> 0]

----------------------------------------------------------------------------
(* The symlink normalizer (normalizeSymlinkAndEnsureSane).  A target is the *)
(* sequence of the tokens of its text: the name "a", "..", "/", the         *)
(* backslash and the null byte.                                             *)

MaxTargetLen == 3

TargetTokens == {"a", "..", "/", "\\", "NUL"}
SymlinkModes == {"Ignore", "Portable", "POSIXRaw"}

RECURSIVE TargetsOfLen(_)
TargetsOfLen(n) ==
    IF n = 0 THEN {<<>>}
    ELSE {Append(t, c) : t \in TargetsOfLen(n - 1), c \in TargetTokens}

Targets == UNION {TargetsOfLen(n) : n \in 0..MaxTargetLen}

Contains(target, token) == \E i \in 1..Len(target) : target[i] = token

\* The walk over the components of a target: the depth below the directory
\* of the link must never become negative.
RECURSIVE Escapes(_, _, _)
Escapes(target, i, depth) ==
    IF i > Len(target) THEN FALSE
    ELSE IF target[i] = "/" THEN Escapes(target, i + 1, depth)
    ELSE IF target[i] = ".." THEN depth = 0 \/ Escapes(target, i + 1, depth - 1)
    ELSE Escapes(target, i + 1, depth + 1)

\* What the normalizer returns: the target and no error (""), or no target
\* and an error.
Normalized(target, err) == [target |-> target, err |-> err]
NotNormalized == Normalized(NoTarget, "not called")

\* Faulty variant: the backslash is looked for in Portable mode only.
normalizeBackslashPortableOnly(mode, path, target) ==
    IF target = NoTarget THEN Normalized(NoTarget, "target is empty")
    ELSE IF mode = "POSIXRaw" THEN Normalized(target, "")
    ELSE IF Contains(target, "\\") THEN Normalized(NoTarget, "target contains backslash")
    ELSE IF Contains(target, "NUL") THEN Normalized(NoTarget, "target contains null byte")
    ELSE IF target[1] = "/" THEN Normalized(NoTarget, "target is absolute")
    ELSE IF Escapes(target, 1, 0) THEN Normalized(NoTarget, "target references location above")
    ELSE Normalized(target, "")

\* normalizeSymlinkAndEnsureSane under a symlink mode: the checks in order,
\* and the target as it is when all pass.
normalizeSymlinkAndEnsureSane(mode, path, target) ==
    IF target = NoTarget THEN Normalized(NoTarget, "target is empty")
    ELSE IF Contains(target, "\\") THEN Normalized(NoTarget, "target contains backslash")
    ELSE IF mode = "POSIXRaw" THEN Normalized(target, "")
    ELSE IF Contains(target, "NUL") THEN Normalized(NoTarget, "target contains null byte")
    ELSE IF target[1] = "/" THEN Normalized(NoTarget, "target is absolute")
    ELSE IF Escapes(target, 1, 0) THEN Normalized(NoTarget, "target references location above")
    ELSE Normalized(target, "")

InitNormalizer ==
    /\ symlinkMode \in SymlinkModes
    /\ linkPath \in {<<"l">>, <<"d", "l">>}
    /\ linkTarget \in Targets
    /\ normalized = NotNormalized

\* The normalizer is not called.
NoNormalizer ==
    /\ symlinkMode = "Portable"
    /\ linkPath = <<"l">>
    /\ linkTarget = NoTarget
    /\ normalized = NotNormalized

----------------------------------------------------------------------------
(* URLs (package url).  A string is the sequence of its characters.         *)

MaxRawLen == 5
MaxPort == 65535

DigitChars == <<"0", "1", "2", "3", "4", "5", "6", "7", "8", "9">>
Digits == {DigitChars[i] : i \in 1..10}
Letters == {"a", "h", "p", "s", "t", "u"}
DigitValue(c) == (CHOOSE i \in 1..10 : DigitChars[i] = c) - 1

\* The characters of the strings that are tried in every combination.
RawChars == {"h", "0", "2", ":", "@", "/"}

RECURSIVE StringsOfLen(_)
StringsOfLen(n) ==
    IF n = 0 THEN {<<>>}
    ELSE {Append(t, c) : t \in StringsOfLen(n - 1), c \in RawChars}

\* Longer strings: those of the tests of Parse, with shorter names, and
\* strings with a port at and beyond the limits.
RawCorpus ==
    {<<"u", "@", "h", ":", "p">>,
     <<"u", "@", "h", ":", ":", "p">>,
     <<"u", "@", "h", ":", "p", "a", ":", "t", "h">>,
     <<"u", "@", "h", ":", "p", ":">>,
     <<"u", "@", "h", "@", "s", "t", ":", "p">>,
     <<"u", "@", "h", ":", "p", "@", "t">>,
     <<"u", "@", "h", ":", "6", "5", "5", "3", "5", ":", "p">>,
     <<"u", "@", "h", ":", "6", "5", "5", "3", "6", ":", "p">>,
     <<"u", "@", "h", ":", "0", ":", "p">>,
     <<"u", "@", "h", ":", "0", "0", ":", "p">>,
     <<"u", "@", "h", ":", "a", "a", "a", ":", "p">>,
     <<"h", ":", "0", "0", "0", "6", "5", "5", "3", "5", ":", "p">>,
     <<"h", ":", "9", "9", "9", "9", "9", "9", "9", "9", "9", "9", "9", ":", "p">>,
     <<"h", ":", "2", "2", "a", ":", "p">>,
     <<"h", ":", "0", ":", "2", "2", ":", "p">>,
     <<"/", "t", "/", "a", ":", "p">>,
     <<"5", "h", "t", "t", "p", ":", "/", "/", "h", "/">>,
     <<"h", "t", "t", "-", ".", "+", "p", ":", "/", "/", "h", "/">>}

RawStrings == UNION {StringsOfLen(n) : n \in 0..MaxRawLen} \cup RawCorpus

\* URL, and what Parse returns: a URL, or an error and no URL.
URL(protocol, user, host, port, path) ==
    [protocol |-> protocol, user |-> user, host |-> host, port |-> port, path |-> path]
Parsed(url) == [ok |-> TRUE, url |-> url]
ParseFailed == [ok |-> FALSE, url |-> URL("Local", <<>>, <<>>, 0, <<>>)]

\* The index of the first c in str at or after i, and 0 when there is none.
RECURSIVE IndexFrom(_, _, _)
IndexFrom(str, c, i) ==
    IF i > Len(str) THEN 0
    ELSE IF str[i] = c THEN i
    ELSE IndexFrom(str, c, i + 1)

Index(str, c) == IndexFrom(str, c, 1)
Before(str, i) == SubSeq(str, 1, i - 1)
After(str, i) == SubSeq(str, i + 1, Len(str))

\* The index of the first "://" of str, and 0 when there is none.
SchemeEnd(str) ==
    LET at == {i \in 1..Len(str) - 2 :
                    str[i] = ":" /\ str[i + 1] = "/" /\ str[i + 2] = "/"}
    IN  IF at = {} THEN 0 ELSE CHOOSE i \in at : \A j \in at : i <= j

\* The grammar of a scheme: a letter, then letters, digits, "+", "." and "-".
ValidScheme(str) ==
    /\ str # <<>>
    /\ str[1] \in Letters
    /\ \A i \in 2..Len(str) : str[i] \in Letters \cup Digits \cup {"+", ".", "-"}

\* The host and path of a raw string name a remote: they have a colon with
\* no slash before it.
IsSCP(hostAndPath) ==
    /\ Index(hostAndPath, ":") # 0
    /\ Index(hostAndPath, "/") \in {0} \cup (Index(hostAndPath, ":") + 1)..Len(hostAndPath)

\* strconv.ParseUint(digits, 10, 16): the value of a string of digits, read
\* from the left, and MaxPort + 1 for every value out of range.
RECURSIVE ParseUint16(_, _, _)
ParseUint16(digits, i, sofar) ==
    IF i > Len(digits) THEN sofar
    ELSE LET n == sofar * 10 + DigitValue(digits[i])
         IN  ParseUint16(digits, i + 1, IF n > MaxPort THEN MaxPort + 1 ELSE n)

\* What the scan for a port finds in the text after the colon of the host:
\* the index of the colon that ends the port, and 0 without a port.  The
\* scan goes over digits and stops at the first other character.
RECURSIVE PortEnd(_, _)
\* Faulty variant: the value one above the largest port is taken as a port.
PortEndOffByOne(tail, i) ==
    IF i > Len(tail) THEN 0
    ELSE IF tail[i] \in Digits THEN PortEnd(tail, i + 1)
    ELSE IF tail[i] = ":" /\ i # 1 /\ ParseUint16(Before(tail, i), 1, 0) <= MaxPort + 1
    THEN i
    ELSE 0

PortEnd(tail, i) ==
    IF i > Len(tail) THEN 0
    ELSE IF tail[i] \in Digits THEN PortEnd(tail, i + 1)
    ELSE IF tail[i] = ":" /\ i # 1 /\ ParseUint16(Before(tail, i), 1, 0) <= MaxPort
    THEN i
    ELSE 0

\* Parse of a raw string that names a remote, split at its first "@".
ParseSSH(str) ==
    LET at == Index(str, "@")
        user == IF at = 0 THEN <<>> ELSE Before(str, at)
        hostAndPath == IF at = 0 THEN str ELSE After(str, at)
        colon == Index(hostAndPath, ":")
        host == Before(hostAndPath, colon)
        tail == After(hostAndPath, colon)
        end == PortEnd(tail, 1)
    IN  IF host = <<>> THEN ParseFailed
        ELSE IF end = 0 THEN Parsed(URL("SSH", user, host, 0, tail))
        ELSE Parsed(URL("SSH", user, host,
                        ParseUint16(Before(tail, end), 1, 0), After(tail, end)))

\* Parse: a custom URL, a remote, or a local path.
Parse(str) ==
    LET scheme == SchemeEnd(str)
        at == Index(str, "@")
        hostAndPath == IF at = 0 THEN str ELSE After(str, at)
    IN  IF str = <<>> THEN ParseFailed
        ELSE IF scheme # 0 THEN
            IF ValidScheme(Before(str, scheme))
            THEN Parsed(URL("Custom", <<>>, <<>>, 0, str))
            ELSE ParseFailed
        ELSE IF Index(hostAndPath, ":") = 0 THEN Parsed(URL("Local", <<>>, <<>>, 0, str))
        ELSE IF Index(hostAndPath, ":") = 1 THEN ParseFailed
        ELSE IF IsSCP(hostAndPath) THEN ParseSSH(str)
        ELSE Parsed(URL("Local", <<>>, <<>>, 0, str))

\* fmt's %d of a number that is not negative.
RECURSIVE Decimal(_)
Decimal(n) ==
    IF n < 10 THEN <<DigitChars[n + 1]>>
    ELSE Append(Decimal(n \div 10), DigitChars[(n % 10) + 1])

formatLocal(u) == u.path

formatSSH(u) ==
    LET withUser == IF u.user # <<>> THEN u.user \o <<"@">> \o u.host ELSE u.host
        withPort == IF u.port # 0 THEN withUser \o <<":">> \o Decimal(u.port) ELSE withUser
    IN  withPort \o <<":">> \o u.path

formatCustom(u) == u.path

Format(u) ==
    IF u.protocol = "Local" THEN formatLocal(u)
    ELSE IF u.protocol = "SSH" THEN formatSSH(u)
    ELSE formatCustom(u)

InitURL ==
    /\ raw \in RawStrings
    /\ parsed = ParseFailed
    /\ formatted = <<>>
    /\ reparsed = ParseFailed
    /\ urlPc = "start"

\* Parse and Format are not called.
NoURL ==
    /\ raw = <<>>
    /\ parsed = ParseFailed
    /\ formatted = <<>>
    /\ reparsed = ParseFailed
    /\ urlPc = "start"

----------------------------------------------------------------------------
(* Scan.  The helpers below set pc, stack, newCache, pending, ret and      *)
(* lastCache; r is the record of the running call.                         *)

Running(startV) == Result(NilEntry, EmptyCache, TRUE, "running", startV, startV)

Top == stack[Len(stack)]
WithContent(stk, name, entry) ==
    [stk EXCEPT ![Len(stk)].contents = Put(@, name, entry)]
WithoutTodo(stk, name) == [stk EXCEPT ![Len(stk)].todo = @ \ {name}]

\* Scan returns; the caller keeps the cache of a successful scan.
Finish(entry, c, cacheNil, err, r) ==
    /\ pc' = "done"
    /\ ret' = Result(entry, c, cacheNil, err, r.startV, fsVersion)
    /\ lastCache' = IF err = "" THEN c ELSE lastCache
    /\ stack' = <<>>
    /\ newCache' = EmptyCache
    /\ pending' = NoPending

\* Faulty variant: the cache filled so far is returned with the error.
FailWithPartialCache(err, r) == Finish(NilEntry, newCache, FALSE, err, r)

\* Any error: return nil, nil, err.
Fail(err, r) == Finish(NilEntry, EmptyCache, TRUE, err, r)

\* A file, symlink or directory call returned entry without error: the
\* calling directory adds it to its contents, and Scan returns it when it is
\* the root.
Deliver(name, entry, stk, nc, r) ==
    IF stk = <<>> THEN Finish(entry, nc, FALSE, "", r)
    ELSE /\ pc' = "walk"
         /\ stack' = WithContent(stk, name, entry)
         /\ newCache' = nc
         /\ pending' = NoPending
         /\ ret' = r
         /\ UNCHANGED lastCache

\* The loop of scanner.directory goes on to the next name.
Continue(stk) ==
    /\ pc' = "walk"
    /\ stack' = stk
    /\ UNCHANGED <<newCache, pending, ret, lastCache>>

\* scanner.file up to the open: a cached digest is reused, and without one
\* the file is to be opened.
file(path, name, info, c, stk, nc, r) ==
    LET digest == CachedDigest(c, path, info) IN
    IF digest = NilDigest
    THEN /\ pc' = "open"
         /\ pending' = [path |-> path, name |-> name, info |-> info]
         /\ stack' = stk
         /\ newCache' = nc
         /\ ret' = r
         /\ UNCHANGED lastCache
    ELSE Deliver(name, FileEntry(info.exec, digest), stk,
                 AddCacheEntry(nc, path, info, digest), r)

\* Faulty variant: the entry of scanner.file is written to the input cache too.
InputCacheWritten(c, path, info, digest) == AddCacheEntry(c, path, info, digest)

\* The input cache after scanner.file has written its entry for path: the
\* write goes to the new cache, and the input cache is as it was.
InputCacheAfterFile(c, path, info, digest) == c

\* The input cache after the part of scanner.file before the open: the
\* entry is written there when the digest came from the cache.
InputCacheAfterLookup(c, path, info) ==
    IF CachedDigest(c, path, info) = NilDigest THEN c
    ELSE InputCacheAfterFile(c, path, info, CachedDigest(c, path, info))

\* Faulty variant: the new cache starts as a copy of the input cache.
NewCacheCopied(c) == c

\* The new cache Scan creates: empty, whatever the input cache holds.
NewCache(c) == EmptyCache

\* Faulty variant: a missing root is an error like any other failure of the stat.
RootMissingIsError(nc, r) == Fail("unable to probe snapshot root", r)

\* The root does not exist: Scan returns no entry, the new cache, no error.
RootMissing(nc, r) == Finish(NilEntry, nc, FALSE, "", r)

\* Scan up to the first system call after the stat of the root.
ScanStart ==
    /\ pc \in {"idle", "done"}
    /\ numScans < scanLimit
    /\ numScans' = numScans + 1
    /\ prev' = Previous(ret, DOMAIN statLog \ opened)
    /\ opened' = {}
    /\ vanished' = {}
    /\ lstatLog' = EmptyCache
    /\ \E nilCache \in BOOLEAN, ioerr \in BOOLEAN :
        LET c == IF nilCache THEN EmptyCache ELSE lastCache
            r == Running(fsVersion)
            nc == NewCache(c)
            root == fs[<<>>]
            info == FileInfo(root)
        IN  /\ cache' = IF IgnoresValid(ignores) /\ ~ioerr /\ root.kind = "file"
                        THEN InputCacheAfterLookup(c, <<>>, info) ELSE c
            /\ failure' = IF IgnoresValid(ignores) /\ ioerr
                          THEN Failure("stat", <<>>) ELSE NoFailure
            /\ rootStat' = IF ~IgnoresValid(ignores) THEN "unstatted"
                           ELSE IF ioerr THEN "error"
                           ELSE root.kind
            /\ statLog' = IF IgnoresValid(ignores) /\ ~ioerr /\ root.kind = "file"
                          THEN Put(EmptyCache, <<>>, info) ELSE EmptyCache
            /\ IF ~IgnoresValid(ignores) THEN Fail("unable to create ignorer", r)
               ELSE IF ioerr THEN Fail("unable to probe snapshot root", r)
               ELSE IF root.kind = "none" THEN RootMissing(nc, r)
               ELSE IF root.kind = "dir"
               THEN /\ pc' = "list"
                    /\ stack' = <<Frame(<<>>, "")>>
                    /\ ret' = r
                    /\ newCache' = nc
                    /\ UNCHANGED <<pending, lastCache>>
               ELSE IF root.kind # "file" THEN Fail("invalid snapshot root type", r)
               ELSE file(<<>>, "", info, c, <<>>, nc, r)
    /\ UNCHANGED <<fs, fsVersion, config, hasher, scanLimit>>
    /\ UNCHANGED <<connVars, pureVars>>

\* scanner.directory: filesystem.DirectoryContents.
ListDirectory ==
    /\ pc = "list"
    /\ \E ioerr \in BOOLEAN :
        IF ioerr \/ fs[Top.path].kind # "dir"
        THEN /\ Fail("unable to read directory contents", ret)
             /\ failure' = Failure("readdir", Top.path)
        ELSE /\ pc' = "walk"
             /\ stack' = [stack EXCEPT ![Len(stack)].todo = DirectoryContents(fs, Top.path)]
             /\ UNCHANGED <<newCache, pending, ret, lastCache, failure>>
    /\ UNCHANGED <<fs, fsVersion, config, hasher, numScans, scanLimit, cache, prev, statLog,
                   opened, vanished, rootStat, lstatLog>>
    /\ UNCHANGED <<connVars, pureVars>>

\* The os.Lstat of scanner.directory is reached and finds nothing.
LstatNotExist(contentPath, ioerr) ==
    ~ignored(ignores, contentPath) /\ ~ioerr /\ fs[contentPath].kind = "none"

\* The os.Lstat of scanner.directory is reached and fails otherwise, and it
\* is reached and returns the os.FileInfo of what is there.
LstatFails(contentPath, ioerr) == ~ignored(ignores, contentPath) /\ ioerr
LstatSucceeds(contentPath, ioerr) ==
    ~ignored(ignores, contentPath) /\ ~ioerr /\ fs[contentPath].kind # "none"

\* Faulty variant: a name whose lstat finds nothing is an error like any other
\* failure of the lstat.
ChildOutcomeNotFoundFatal(contentPath, ioerr) ==
    LET node == fs[contentPath] IN
    IF ignored(ignores, contentPath) THEN "ignored"
    ELSE IF ioerr \/ node.kind = "none" THEN "staterror"
    ELSE IF node.kind = "other" THEN "unsupported"
    ELSE IF ignoreSize > 0 /\ node.kind = "file" /\ FileInfo(node).size >= ignoreSize
    THEN "toobig"
    ELSE IF node.kind = "symlink" /\ ~symlinksSupported THEN "nosymlinks"
    ELSE node.kind

\* Faulty variant: the ignorer is not asked.
ChildOutcomeNothingIgnored(contentPath, ioerr) ==
    LET node == fs[contentPath] IN
    IF ioerr THEN "staterror"
    ELSE IF node.kind = "none" THEN "vanished"
    ELSE IF node.kind = "other" THEN "unsupported"
    ELSE IF ignoreSize > 0 /\ node.kind = "file" /\ FileInfo(node).size >= ignoreSize
    THEN "toobig"
    ELSE IF node.kind = "symlink" /\ ~symlinksSupported THEN "nosymlinks"
    ELSE node.kind

\* Faulty variant: the ignorer is asked after the lstat, for what is not a
\* directory.
ChildOutcomeDirectoriesNotIgnored(contentPath, ioerr) ==
    LET node == fs[contentPath] IN
    IF ioerr THEN "staterror"
    ELSE IF node.kind = "none" THEN "vanished"
    ELSE IF node.kind # "dir" /\ ignored(ignores, contentPath) THEN "ignored"
    ELSE IF node.kind = "other" THEN "unsupported"
    ELSE IF ignoreSize > 0 /\ node.kind = "file" /\ FileInfo(node).size >= ignoreSize
    THEN "toobig"
    ELSE IF node.kind = "symlink" /\ ~symlinksSupported THEN "nosymlinks"
    ELSE node.kind

\* Faulty variant: a file of exactly the size of the limit is not skipped.
ChildOutcomeAboveLimitOnly(contentPath, ioerr) ==
    LET node == fs[contentPath] IN
    IF ignored(ignores, contentPath) THEN "ignored"
    ELSE IF ioerr THEN "staterror"
    ELSE IF node.kind = "none" THEN "vanished"
    ELSE IF node.kind = "other" THEN "unsupported"
    ELSE IF ignoreSize > 0 /\ node.kind = "file" /\ FileInfo(node).size > ignoreSize
    THEN "toobig"
    ELSE IF node.kind = "symlink" /\ ~symlinksSupported THEN "nosymlinks"
    ELSE node.kind

\* What the loop body of scanner.directory decides for one name, in the
\* order of the code: ignored, lstat, kind, size.
ChildOutcome(contentPath, ioerr) ==
    LET node == fs[contentPath] IN
    IF ignored(ignores, contentPath) THEN "ignored"
    ELSE IF ioerr THEN "staterror"
    ELSE IF node.kind = "none" THEN "vanished"
    ELSE IF node.kind = "other" THEN "unsupported"
    ELSE IF ignoreSize > 0 /\ node.kind = "file" /\ FileInfo(node).size >= ignoreSize
    THEN "toobig"
    ELSE IF node.kind = "symlink" /\ ~symlinksSupported THEN "nosymlinks"
    ELSE node.kind

\* scanner.directory: one iteration of the loop, up to its next system call.
DirectoryChild ==
    /\ pc = "walk"
    /\ \E name \in Top.todo, ioerr \in BOOLEAN :
        LET contentPath == Append(Top.path, name)
            stk == WithoutTodo(stack, name)
            info == FileInfo(fs[contentPath])
            outcome == ChildOutcome(contentPath, ioerr)
        IN  /\ vanished' = IF LstatNotExist(contentPath, ioerr)
                           THEN vanished \cup {contentPath} ELSE vanished
            /\ statLog' = IF outcome = "file" THEN Put(statLog, contentPath, info)
                          ELSE statLog
            /\ lstatLog' = IF LstatSucceeds(contentPath, ioerr)
                           THEN Put(lstatLog, contentPath, info) ELSE lstatLog
            /\ failure' = IF LstatFails(contentPath, ioerr)
                          THEN Failure("lstat", contentPath) ELSE failure
            /\ cache' = IF outcome = "file"
                        THEN InputCacheAfterLookup(cache, contentPath, info) ELSE cache
            /\ CASE outcome = "staterror" ->
                        Fail("unable to stat directory content", ret)
                 [] outcome = "file" ->
                        file(contentPath, name, info, cache, stk, newCache, ret)
                 [] outcome = "symlink" ->
                        /\ pc' = "readlink"
                        /\ pending' = [path |-> contentPath, name |-> name, info |-> info]
                        /\ stack' = stk
                        /\ UNCHANGED <<newCache, ret, lastCache>>
                 [] outcome = "dir" ->
                        /\ pc' = "list"
                        /\ stack' = Append(stk, Frame(contentPath, name))
                        /\ UNCHANGED <<newCache, pending, ret, lastCache>>
                 [] OTHER -> Continue(stk)
    /\ UNCHANGED <<fs, fsVersion, config, hasher, numScans, scanLimit, prev, opened,
                   rootStat>>
    /\ UNCHANGED <<connVars, pureVars>>

\* scanner.directory returns its entry once every listed name is handled.
DirectoryReturn ==
    /\ pc = "walk"
    /\ Top.todo = {}
    /\ Deliver(Top.name, DirectoryEntry(Top.contents),
               SubSeq(stack, 1, Len(stack) - 1), newCache, ret)
    /\ UNCHANGED <<fs, fsVersion, config, hasher, numScans, scanLimit, cache, prev, statLog,
                   opened, vanished, rootStat, lstatLog, failure>>
    /\ UNCHANGED <<connVars, pureVars>>

\* scanner.file from the open on: open, reset the hasher, copy the file into
\* it, compare the count with the size of the stat, take the sum.
FileHash ==
    /\ pc = "open"
    /\ opened' = opened \cup {pending.path}
    /\ \E ioerr \in {"none", "open", "read"} :
        LET node == fs[pending.path]
            info == pending.info
        IN  IF ioerr = "open" \/ node.kind = "none"
            THEN /\ Fail("unable to open file", ret)
                 /\ failure' = Failure("open", pending.path)
                 /\ UNCHANGED <<hasher, cache>>
            ELSE IF ioerr = "read" \/ node.kind # "file"
            THEN /\ Fail("unable to hash file contents", ret)
                 /\ failure' = Failure("read", pending.path)
                 /\ \E k \in 0..Len(node.content) :
                        hasher' = HashWrite(HashReset(hasher), SubSeq(node.content, 1, k))
                 /\ UNCHANGED cache
            ELSE LET h == HashWrite(HashReset(hasher), node.content)
                     digest == HashSum(h)
                 IN  /\ hasher' = h
                     /\ IF Len(node.content) # info.size
                        THEN /\ Fail("hashed size mismatch", ret)
                             /\ failure' = Failure("size", pending.path)
                             /\ UNCHANGED cache
                        ELSE /\ Deliver(pending.name, FileEntry(info.exec, digest), stack,
                                        AddCacheEntry(newCache, pending.path, info, digest),
                                        ret)
                             /\ cache' = InputCacheAfterFile(cache, pending.path, info,
                                                             digest)
                             /\ UNCHANGED failure
    /\ UNCHANGED <<fs, fsVersion, config, numScans, scanLimit, prev, statLog, vanished,
                   rootStat, lstatLog>>
    /\ UNCHANGED <<connVars, pureVars>>

\* Faulty variant: an empty target is accepted.
ReadlinkAnyTarget ==
    /\ pc = "readlink"
    /\ \E ioerr \in BOOLEAN :
        LET node == fs[pending.path] IN
        IF ioerr \/ node.kind # "symlink"
        THEN /\ Fail("unable to read symlink target", ret)
             /\ failure' = Failure("readlink", pending.path)
        ELSE /\ Deliver(pending.name, SymlinkEntry(node.target), stack, newCache, ret)
             /\ UNCHANGED failure
    /\ UNCHANGED <<fs, fsVersion, config, hasher, numScans, scanLimit, cache, prev, statLog,
                   opened, vanished, rootStat, lstatLog>>
    /\ UNCHANGED <<connVars, pureVars>>

\* scanner.symlink: os.Readlink and the check of the target.
Readlink ==
    /\ pc = "readlink"
    /\ \E ioerr \in BOOLEAN :
        LET node == fs[pending.path] IN
        IF ioerr \/ node.kind # "symlink"
        THEN /\ Fail("unable to read symlink target", ret)
             /\ failure' = Failure("readlink", pending.path)
        ELSE /\ IF node.target = NoTarget THEN Fail("empty symlink target read", ret)
                ELSE Deliver(pending.name, SymlinkEntry(node.target), stack, newCache, ret)
             /\ UNCHANGED failure
    /\ UNCHANGED <<fs, fsVersion, config, hasher, numScans, scanLimit, cache, prev, statLog,
                   opened, vanished, rootStat, lstatLog>>
    /\ UNCHANGED <<connVars, pureVars>>

----------------------------------------------------------------------------
(* Other processes change the filesystem, at any time. *)

\* A change can still be seen by a scan.
ChangeAllowed ==
    /\ fsVersion < MaxFsChanges
    /\ numScans < scanLimit \/ pc \notin {"idle", "done"}

FsDelete ==
    /\ ChangeAllowed
    /\ \E p \in Paths :
        /\ fs[p].kind # "none"
        /\ fs' = [q \in Paths |-> IF IsPrefix(p, q) THEN NoNode ELSE fs[q]]
    /\ fsVersion' = fsVersion + 1
    /\ UNCHANGED <<config, scanVars, connVars, pureVars>>

\* A file is rewritten; the new contents may have the old length and the
\* modification time may be the old one.
FsWrite ==
    /\ ChangeAllowed
    /\ \E p \in Paths, c \in Contents, t \in Mtimes :
        /\ fs[p].kind = "file"
        /\ <<c, t>> # <<fs[p].content, fs[p].mtime>>
        /\ fs' = [fs EXCEPT ![p] = FileNode(c, t, @.exec)]
    /\ fsVersion' = fsVersion + 1
    /\ UNCHANGED <<config, scanVars, connVars, pureVars>>

FsCreate ==
    /\ ChangeAllowed
    /\ \E p \in Paths, n \in {FileNode(c, t, FALSE) : c \in Contents, t \in Mtimes}
                                \cup {DirNode} :
        /\ fs[p].kind = "none"
        /\ p = <<>> \/ fs[Parent(p)].kind = "dir"
        /\ fs' = [fs EXCEPT ![p] = n]
    /\ fsVersion' = fsVersion + 1
    /\ UNCHANGED <<config, scanVars, connVars, pureVars>>

vars == <<fs, fsVersion, config, scanVars, connVars, pureVars>>

\* Scans of a filesystem that changes at any time.
Init == InitScan(MaxScans) /\ NoReconnect /\ NoNormalizer /\ NoURL

Next ==
    \/ ScanStart
    \/ ListDirectory
    \/ DirectoryChild
    \/ DirectoryReturn
    \/ FileHash
    \/ Readlink
    \/ FsDelete
    \/ FsWrite
    \/ FsCreate

Spec == Init /\ [][Next]_vars

----------------------------------------------------------------------------
(* reconnect and connect (session/connect.go).  Every call of reconnect    *)
(* gets the same context, as the calls for the two sides of a session do.  *)

scanSide == <<fs, fsVersion, config, scanVars>>

\* reconnect up to its select: the channel is made and the goroutine started.
Reconnect(k) ==
    /\ callerPc[k] = "notcalled"
    /\ IF k = 1 THEN TRUE ELSE callerPc[k - 1] = "returned"
    /\ callerPc' = [callerPc EXCEPT ![k] = "waiting"]
    /\ goPc' = [goPc EXCEPT ![k] = "connect"]
    /\ UNCHANGED <<ctxDone, urls, callerRet, goResult, endpoints, dials, scanSide, pureVars>>

\* connect returns in the goroutine of call k: the goroutine reaches its
\* select; an endpoint that is returned is open.
ConnectReturns(k, result) ==
    /\ goPc' = [goPc EXCEPT ![k] = "select"]
    /\ goResult' = [goResult EXCEPT ![k] = result]
    /\ endpoints' = [endpoints EXCEPT
                        ![k] = IF result.endpoint = NilEndpoint THEN @ ELSE "open"]

\* Faulty variant: a custom URL is taken for a local one.
ConnectLocalOrCustom(k) ==
    /\ goPc[k] = "connect"
    /\ urls[k] \in {"Local", "Custom"}
    /\ \E ok \in BOOLEAN :
        ConnectReturns(k, IF ok THEN ConnectResult("local endpoint", "")
                          ELSE ConnectResult(NilEndpoint, "unable to create local endpoint"))
    /\ UNCHANGED <<ctxDone, urls, callerPc, callerRet, dials, scanSide, pureVars>>

\* connect, Local: newLocalEndpoint makes the endpoint or fails.
ConnectLocal(k) ==
    /\ goPc[k] = "connect"
    /\ urls[k] = "Local"
    /\ \E ok \in BOOLEAN :
        ConnectReturns(k, IF ok THEN ConnectResult("local endpoint", "")
                          ELSE ConnectResult(NilEndpoint, "unable to create local endpoint"))
    /\ UNCHANGED <<ctxDone, urls, callerPc, callerRet, dials, scanSide, pureVars>>

\* connect, SSH: agent.DialSSH returns, with a connection or an error.
DialSSH(k) ==
    /\ goPc[k] = "connect"
    /\ urls[k] = "SSH"
    /\ dials' = [dials EXCEPT ![k] = @ + 1]
    /\ \E ok \in BOOLEAN :
        IF ok
        THEN /\ goPc' = [goPc EXCEPT ![k] = "dialed"]
             /\ UNCHANGED <<goResult, endpoints>>
        ELSE ConnectReturns(k, ConnectResult(NilEndpoint, "unable to connect to SSH remote"))
    /\ UNCHANGED <<ctxDone, urls, callerPc, callerRet, scanSide, pureVars>>

\* connect, SSH: newRemoteEndpoint makes the endpoint on the connection or
\* fails.
NewRemoteEndpoint(k) ==
    /\ goPc[k] = "dialed"
    /\ \E ok \in BOOLEAN :
        ConnectReturns(k, IF ok THEN ConnectResult("remote endpoint", "")
                          ELSE ConnectResult(NilEndpoint, "unable to create remote endpoint"))
    /\ UNCHANGED <<ctxDone, urls, callerPc, callerRet, dials, scanSide, pureVars>>

\* connect, any other protocol: an error that names the protocol.
ConnectUnknown(k) ==
    /\ goPc[k] = "connect"
    /\ urls[k] \notin {"Local", "SSH"}
    /\ ConnectReturns(k, ConnectResult(NilEndpoint, "unknown protocol: " \o urls[k]))
    /\ UNCHANGED <<ctxDone, urls, callerPc, callerRet, dials, scanSide, pureVars>>

\* Faulty variant: the goroutine leaves the endpoint as it is.
CloseUndeliveredForgotten(k) == endpoints

\* What the goroutine does with the endpoint when its select takes
\* ctx.Done(): it closes an endpoint that is not nil.
CloseUndelivered(k) ==
    [endpoints EXCEPT ![k] = IF goResult[k].endpoint # NilEndpoint THEN "closed" ELSE @]

\* The select of the goroutine takes ctx.Done().
GoroutineCancelled(k) ==
    /\ goPc[k] = "select"
    /\ ctxDone
    /\ endpoints' = CloseUndelivered(k)
    /\ goPc' = [goPc EXCEPT ![k] = "done"]
    /\ UNCHANGED <<ctxDone, urls, callerPc, callerRet, goResult, dials, scanSide, pureVars>>

\* Faulty variant: the goroutine closes the endpoint it has sent.
TransmitAndClose(k) ==
    /\ goPc[k] = "select"
    /\ callerPc[k] = "waiting"
    /\ goPc' = [goPc EXCEPT ![k] = "done"]
    /\ callerPc' = [callerPc EXCEPT ![k] = "returned"]
    /\ callerRet' = [callerRet EXCEPT
                        ![k] = ReconnectReturn(goResult[k].endpoint, goResult[k].error, FALSE)]
    /\ endpoints' = CloseUndelivered(k)
    /\ UNCHANGED <<ctxDone, urls, goResult, dials, scanSide, pureVars>>

\* The send of the goroutine meets the receive of reconnect (the channel has
\* no buffer): reconnect returns the result.
Transmit(k) ==
    /\ goPc[k] = "select"
    /\ callerPc[k] = "waiting"
    /\ goPc' = [goPc EXCEPT ![k] = "done"]
    /\ callerPc' = [callerPc EXCEPT ![k] = "returned"]
    /\ callerRet' = [callerRet EXCEPT
                        ![k] = ReconnectReturn(goResult[k].endpoint, goResult[k].error, FALSE)]
    /\ UNCHANGED <<ctxDone, urls, goResult, endpoints, dials, scanSide, pureVars>>

\* Faulty variant: reconnect waits for connect to return before it looks at the
\* context.
CancelReadyAfterConnect(k) ==
    callerPc[k] = "waiting" /\ ctxDone /\ goPc[k] \notin {"connect", "dialed"}

\* The select of reconnect can take ctx.Done().
CancelReady(k) == callerPc[k] = "waiting" /\ ctxDone

\* The select of reconnect takes ctx.Done(): it returns the cancellation
\* error.
ReconnectCancelled(k) ==
    /\ CancelReady(k)
    /\ callerPc' = [callerPc EXCEPT ![k] = "returned"]
    /\ callerRet' = [callerRet EXCEPT
                        ![k] = ReconnectReturn(NilEndpoint, "reconnect cancelled",
                                               goPc[k] \in {"connect", "dialed"})]
    /\ UNCHANGED <<ctxDone, urls, goPc, goResult, endpoints, dials, scanSide, pureVars>>

\* The caller cancels the context.
Cancel ==
    /\ ~ctxDone
    /\ ctxDone' = TRUE
    /\ UNCHANGED <<urls, callerPc, callerRet, goPc, goResult, endpoints, dials, scanSide, pureVars>>

ReconnectInit == InitScan(0) /\ fs = Tree("none", NoNode) /\ ignores = <<>>
                    /\ ignoreSize = 0 /\ symlinksSupported /\ InitReconnect
                    /\ NoNormalizer /\ NoURL

ReconnectNext ==
    \/ \E k \in Calls :
        \/ Reconnect(k)
        \/ ConnectLocal(k)
        \/ DialSSH(k)
        \/ NewRemoteEndpoint(k)
        \/ ConnectUnknown(k)
        \/ GoroutineCancelled(k)
        \/ Transmit(k)
        \/ ReconnectCancelled(k)
    \/ Cancel

ReconnectSpec == ReconnectInit /\ [][ReconnectNext]_vars

\* The scheduler runs a goroutine that can go on: a select with a ready case
\* is taken, and the steps of connect that do not wait for the network
\* return.  The dial may wait for ever, and the caller need not cancel.
ReconnectFairness ==
    \A k \in Calls :
        /\ WF_vars(GoroutineCancelled(k) \/ Transmit(k))
        /\ WF_vars(ReconnectCancelled(k) \/ Transmit(k))
        /\ WF_vars(ConnectLocal(k))
        /\ WF_vars(NewRemoteEndpoint(k))
        /\ WF_vars(ConnectUnknown(k))

ReconnectFairSpec == ReconnectInit /\ [][ReconnectNext]_vars /\ ReconnectFairness

\* One scan, of a filesystem that changes at any time, by a caller whose
\* cache is any cache.
AnyCacheInit == InitScanWith(1, ForeignCaches) /\ NoReconnect /\ NoNormalizer /\ NoURL

AnyCacheSpec == AnyCacheInit /\ [][Next]_vars

\* Successive scans of a filesystem that changes only between two of them.
QuietInit == InitScan(MaxQuietScans) /\ NoReconnect /\ NoNormalizer /\ NoURL

Quiet == pc \in {"idle", "done"}

QuietNext ==
    \/ ScanStart
    \/ ListDirectory
    \/ DirectoryChild
    \/ DirectoryReturn
    \/ FileHash
    \/ Readlink
    \/ Quiet /\ FsDelete
    \/ Quiet /\ FsWrite
    \/ Quiet /\ FsCreate

QuietSpec == QuietInit /\ [][QuietNext]_vars

----------------------------------------------------------------------------
(* The symlink of a session with a symlink mode: in Ignore mode it is       *)
(* skipped, in the other modes its target goes through the normalizer.      *)

scanAndConn == <<fs, fsVersion, config, scanVars, connVars>>

SkipSymlink ==
    /\ normalized = NotNormalized
    /\ symlinkMode = "Ignore"
    /\ normalized' = Normalized(NoTarget, "skipped")
    /\ UNCHANGED <<symlinkMode, linkPath, linkTarget, urlVars, scanAndConn>>

NormalizeSymlink ==
    /\ normalized = NotNormalized
    /\ symlinkMode # "Ignore"
    /\ normalized' = normalizeSymlinkAndEnsureSane(symlinkMode, linkPath, linkTarget)
    /\ UNCHANGED <<symlinkMode, linkPath, linkTarget, urlVars, scanAndConn>>

SymlinkInit == InitScan(0) /\ fs = Tree("none", NoNode) /\ ignores = <<>>
                    /\ ignoreSize = 0 /\ symlinksSupported /\ NoReconnect
                    /\ InitNormalizer /\ NoURL

SymlinkNext == SkipSymlink \/ NormalizeSymlink

SymlinkSpec == SymlinkInit /\ [][SymlinkNext]_vars

----------------------------------------------------------------------------
(* A caller parses a raw string, formats the URL it gets, and parses the    *)
(* formatted string.                                                        *)

ParseRaw ==
    /\ urlPc = "start"
    /\ parsed' = Parse(raw)
    /\ urlPc' = IF Parse(raw).ok THEN "parsed" ELSE "failed"
    /\ UNCHANGED <<raw, formatted, reparsed, symlinkVars, scanAndConn>>

FormatParsed ==
    /\ urlPc = "parsed"
    /\ formatted' = Format(parsed.url)
    /\ urlPc' = "formatted"
    /\ UNCHANGED <<raw, parsed, reparsed, symlinkVars, scanAndConn>>

ParseFormatted ==
    /\ urlPc = "formatted"
    /\ reparsed' = Parse(formatted)
    /\ urlPc' = "reparsed"
    /\ UNCHANGED <<raw, parsed, formatted, symlinkVars, scanAndConn>>

URLInit == InitScan(0) /\ fs = Tree("none", NoNode) /\ ignores = <<>>
                /\ ignoreSize = 0 /\ symlinksSupported /\ NoReconnect
                /\ NoNormalizer /\ InitURL

URLNext == ParseRaw \/ FormatParsed \/ ParseFormatted

URLSpec == URLInit /\ [][URLNext]_vars

----------------------------------------------------------------------------
(* Properties of Scan. *)

\* The entries of a snapshot with their paths, the root at path.
RECURSIVE Nodes(_, _)
Nodes(e, path) ==
    IF e.kind = "nil" THEN {}
    ELSE {<<path, e>>} \cup
         (IF e.kind = "Directory"
          THEN UNION {Nodes(e.contents[n], Append(path, n)) : n \in DOMAIN e.contents}
          ELSE {})

Snapshot == Nodes(ret.entry, <<>>)
SnapshotPaths == {x[1] : x \in Snapshot}
FilePaths == {x[1] : x \in {y \in Snapshot : y[2].kind = "File"}}

\* The last Scan has returned, and without error.
Returned == pc = "done"
Success == Returned /\ ret.err = ""

\* C1: after a successful Scan, for every File entry of the snapshot, the
\* root included, the returned cache has an entry at the file's path whose
\* size, modification time and type bits are those of the stat this scan saw
\* and whose digest is the entry's digest.
C1_CacheCoherence ==
    Success =>
        \A x \in Snapshot :
            x[2].kind = "File" =>
                /\ x[1] \in DOMAIN ret.cache
                /\ x[1] \in DOMAIN statLog
                /\ ret.cache[x[1]].size = statLog[x[1]].size
                /\ ret.cache[x[1]].mtime = statLog[x[1]].mtime
                /\ ret.cache[x[1]].mode.type = statLog[x[1]].type
                /\ ret.cache[x[1]].digest = x[2].digest

\* A successful scan with a file two levels down that was hashed and a file
\* that was not.
C1_Witness ==
    /\ Success
    /\ {<<"a">>, <<"d", "a">>} \subseteq FilePaths
    /\ <<"d", "a">> \in opened
    /\ <<"a">> \notin opened

\* A successful scan of a root that is a file.
C1_WitnessRoot == Success /\ FilePaths = {<<>>}

C3_CacheKeys ==
    Success =>
        /\ DOMAIN ret.cache = FilePaths
        /\ \A path \in DOMAIN cache :
            path \notin FilePaths => path \notin DOMAIN ret.cache

\* A successful scan, not the first, that dropped an entry of its input cache.
C3_Witness ==
    /\ Success
    /\ numScans >= 2
    /\ FilePaths # {}
    /\ \E path \in DOMAIN cache : path \notin DOMAIN ret.cache

\* C4 as stated: after a successful Scan, no path the ignorer matches is in
\* the snapshot or in the returned cache.
C4_IgnoreExclusivity ==
    Success =>
        \A path \in Paths :
            ignored(ignores, path) =>
                path \notin SnapshotPaths /\ path \notin DOMAIN ret.cache

\* C4 amended: after a successful Scan, no path other than the root that the
\* ignorer matches is in the snapshot or in the returned cache.
C4_IgnoreExclusivityBelowRoot ==
    Success =>
        \A path \in Paths \ {<<>>} :
            ignored(ignores, path) =>
                path \notin SnapshotPaths /\ path \notin DOMAIN ret.cache

\* A successful scan of a directory with an ignored file in it and a file
\* that is not ignored.
C4_Witness ==
    /\ Success
    /\ ignored(ignores, <<"d">>)
    /\ fs[<<"d">>].kind = "dir"
    /\ <<"a">> \in FilePaths

\* C5: a name that was listed and whose lstat finds nothing does not fail
\* the scan: the loop goes on to the next name, with no entry and no cache
\* entry added, and a successful scan has the path neither in the snapshot nor
\* in the cache.
C5_RaceSafety ==
    /\ [](Success => \A path \in vanished :
                        path \notin SnapshotPaths /\ path \notin DOMAIN ret.cache)
    /\ [][vanished' # vanished /\ pc = "walk" =>
            /\ pc' = "walk"
            /\ newCache' = newCache
            /\ stack'[Len(stack')].contents = Top.contents
            /\ stack'[Len(stack')].path = Top.path
            /\ ret' = ret]_vars

\* A successful scan in which a listed name had vanished, and which has an
\* entry for another name of the same directory.
C5_Witness ==
    /\ Success
    /\ <<"a">> \in vanished
    /\ <<"d", "a">> \in FilePaths

\* C8: when the stat of the root finds nothing, Scan returns no entry, an
\* empty cache that is not nil, and no error, whatever the input cache holds.
C8_MissingRoot ==
    Returned /\ rootStat = "none" =>
        /\ ret.entry = NilEntry
        /\ ~ret.cacheNil
        /\ ret.cache = EmptyCache
        /\ ret.err = ""

\* A scan that found no root and was given a cache with an entry.
C8_Witness == Returned /\ rootStat = "none" /\ DOMAIN cache # {}

\* Two successful scans in a row, with no change to the filesystem from the
\* start of the first to now.
TwoScansOfOneTree ==
    /\ Success
    /\ numScans >= 2
    /\ prev.ret.err = ""
    /\ prev.ret.startV = fsVersion

SameResults == prev.ret.entry = ret.entry /\ prev.ret.cache = ret.cache

\* C9 as stated: two successful scans of a tree that does not change return
\* equal snapshots and equal caches, whether the second is given an empty
\* cache or the cache the first returned.
C9_Determinism == TwoScansOfOneTree => SameResults

\* Every digest the first of the two scans took from its input cache is the
\* digest of the contents the file has.
FirstReusedNoStaleDigest ==
    \A path \in prev.reused :
        prev.ret.cache[path].digest = HashSum(fs[path].content)

\* C9 amended: they do when the second scan is given the cache the first
\* returned, and when it starts from an empty cache they do provided every
\* digest the first scan took from its own input cache is the digest of the
\* file's contents.
C9_DeterminismOfFreshDigests ==
    TwoScansOfOneTree /\ (cache = prev.ret.cache \/ FirstReusedNoStaleDigest)
        => SameResults

\* Two successful scans of one tree with two files, the first having taken a
\* digest from its cache, the second starting from an empty cache.
C9_Witness ==
    /\ TwoScansOfOneTree
    /\ FirstReusedNoStaleDigest
    /\ prev.reused # {}
    /\ cache = EmptyCache
    /\ {<<"a">>, <<"d", "a">>} \subseteq FilePaths

\* Two successful scans of one tree, the second given the cache of the first,
\* which holds a digest that is not the digest of the file's contents.
C9_WitnessStale ==
    /\ TwoScansOfOneTree
    /\ ~FirstReusedNoStaleDigest
    /\ cache = prev.ret.cache
    /\ FilePaths # {}

\* A link target is portable: not empty, without backslash, relative, and
\* never above the directory of the link.
RECURSIVE StaysBelow(_, _, _)
StaysBelow(target, i, depth) ==
    IF i > Len(target) THEN TRUE
    ELSE IF target[i] = "/" THEN StaysBelow(target, i + 1, depth)
    ELSE IF target[i] = ".." THEN depth > 0 /\ StaysBelow(target, i + 1, depth - 1)
    ELSE StaysBelow(target, i + 1, depth + 1)

PortableTarget(target) ==
    /\ target # NoTarget
    /\ \A i \in 1..Len(target) : target[i] # "\\"
    /\ target[1] # "/"
    /\ StaysBelow(target, 1, 0)

\* C10: every Symlink entry of the snapshot of a successful Scan has a
\* portable target; a symlink with another target makes the scan fail.
C10_PortableSymlinks ==
    Success =>
        \A x \in Snapshot : x[2].kind = "Symlink" => PortableTarget(x[2].target)

\* C14: Scan does not change its input cache: it starts from the cache of
\* the caller (an empty one for nil), and no step of it, to a return with or
\* without error, changes a key or an entry of that cache.
C14_InputCacheUnchanged ==
    [][IF numScans' # numScans
       THEN cache' \in {lastCache, EmptyCache}
       ELSE cache' = cache]_vars

\* A successful scan that was given a cache with entries, hashed a file and
\* returned another cache than the one it was given.
C14_Witness ==
    /\ Success
    /\ cache # EmptyCache
    /\ cache = prev.ret.cache
    /\ opened # {}
    /\ ret.cache # cache

\* C15: when a system call of the scan fails (the listing of a directory,
\* the lstat of a name other than by finding nothing, the open or the read of
\* a file, the readlink of a symlink), or the read of a file ends with another
\* number of bytes than its stat had, at whatever depth, Scan returns an
\* error, no entry and no cache.
C15_FailureAborts ==
    failure # NoFailure =>
        /\ Returned
        /\ ret.err \notin {"", "running", "none"}
        /\ ret.entry = NilEntry
        /\ ret.cacheNil
        /\ ret.cache = EmptyCache

\* A scan that failed two levels down, on a file whose size had changed since
\* its lstat, after it had made the entry of another file.
C15_Witness ==
    /\ Returned
    /\ failure = Failure("size", <<"d", "a">>)
    /\ <<"a">> \in DOMAIN statLog
    /\ ret.err = "hashed size mismatch"

\* The lstat of this scan found a file at path that the size limit covers.
OverLimit(path) ==
    /\ lstatLog[path].type = "file"
    /\ ignoreSize > 0
    /\ lstatLog[path].size >= ignoreSize

\* C16: a file in a directory whose lstat gave a size of at least the limit,
\* the limit being above 0, is skipped: it is not given to scanner.file, not
\* opened, and in neither the snapshot nor the cache; a file below the limit,
\* and every file when the limit is 0, is given to scanner.file, and a
\* directory or a symlink is scanned whatever its size.
C16_SizeLimit ==
    \A path \in DOMAIN lstatLog :
        /\ OverLimit(path) =>
            /\ path \notin DOMAIN statLog
            /\ path \notin opened
            /\ ~(pc = "open" /\ pending.path = path)
            /\ path \notin DOMAIN newCache
            /\ Success => path \notin SnapshotPaths /\ path \notin DOMAIN ret.cache
        /\ lstatLog[path].type = "file" /\ ~OverLimit(path) =>
            /\ path \in DOMAIN statLog
            /\ Success => path \in FilePaths
        /\ lstatLog[path].type = "dir" /\ Success => path \in SnapshotPaths
        /\ lstatLog[path].type = "symlink" /\ symlinksSupported /\ Success =>
                path \in SnapshotPaths

\* A successful scan with a limit of 2 that skipped a file of 2 bytes, and
\* has a smaller file, a directory and a symlink, both of 4 bytes.
C16_Witness ==
    /\ Success
    /\ ignoreSize = 2
    /\ {<<"a">>, <<"d">>, <<"d", "a">>, <<"d", "l">>} \subseteq DOMAIN lstatLog
    /\ lstatLog[<<"d", "a">>].type = "file"
    /\ lstatLog[<<"d", "a">>].size = 2
    /\ <<"d", "a">> \notin SnapshotPaths
    /\ <<"a">> \in FilePaths
    /\ lstatLog[<<"d", "l">>].type = "symlink"
    /\ <<"d", "l">> \in SnapshotPaths

\* The kind of entry made for what an lstat found.
EntryKindOf(type) ==
    IF type = "file" THEN "File"
    ELSE IF type = "dir" THEN "Directory"
    ELSE IF type = "symlink" THEN "Symlink"
    ELSE "none"

\* An entry has the fields of its kind and no others; a target is not empty,
\* and the children of a directory have the names under which the lstat of
\* this scan found something of their kind.
WellFormedEntry(path, e) ==
    /\ e.kind = "File" => DOMAIN e = {"kind", "executable", "digest"}
    /\ e.kind = "Symlink" => DOMAIN e = {"kind", "target"} /\ e.target # NoTarget
    /\ e.kind = "Directory" =>
        /\ DOMAIN e = {"kind", "contents"}
        /\ \A n \in DOMAIN e.contents :
            /\ n \in Names
            /\ Append(path, n) \in DOMAIN lstatLog
            /\ e.contents[n].kind = EntryKindOf(lstatLog[Append(path, n)].type)

\* The root of the snapshot is nothing, a file or a directory, as the stat
\* of the root found; a root of another type is an error.
WellFormedRoot ==
    /\ Success =>
        /\ ret.entry.kind \in {"nil", "File", "Directory"}
        /\ ret.entry.kind = "nil" <=> rootStat = "none"
        /\ ret.entry.kind = "File" <=> rootStat = "file"
        /\ ret.entry.kind = "Directory" <=> rootStat = "dir"
    /\ Returned /\ rootStat = "other" => ret.err = "invalid snapshot root type"

NonEmptyDigest(e) == ~e.digest.nil /\ e.digest.bytes # <<>>

\* C18 as stated: whatever the input cache, the snapshot of a successful
\* Scan has a root that is nothing, a File or a Directory, File entries with
\* a digest that is not empty, Symlink entries with a target that is not
\* empty, and directories whose children are keyed by base name, with no
\* socket, device or fifo among them.
C18_WellFormed ==
    /\ WellFormedRoot
    /\ Success =>
        \A x \in Snapshot :
            /\ WellFormedEntry(x[1], x[2])
            /\ x[2].kind = "File" => NonEmptyDigest(x[2])

\* The input cache has no digest that is empty without being nil.
NoEmptyDigest(c) == \A path \in DOMAIN c : c[path].digest.nil \/ c[path].digest.bytes # <<>>

\* C18 amended: the same, for every input cache whose digests are nil or not
\* empty.
C18_WellFormedGivenDigests ==
    /\ WellFormedRoot
    /\ Success =>
        \A x \in Snapshot :
            /\ WellFormedEntry(x[1], x[2])
            /\ x[2].kind = "File" /\ NoEmptyDigest(cache) => NonEmptyDigest(x[2])

\* A successful scan, given a cache no Scan returned, that took the digest
\* of one file from it, hashed another file, and has a symlink.
C18_Witness ==
    /\ Success
    /\ <<"a">> \in DOMAIN cache
    /\ cache[<<"a">>].digest = Digest(<<7>>)
    /\ <<"a">> \in FilePaths \ opened
    /\ <<"d", "a">> \in FilePaths
    /\ <<"d", "l">> \in SnapshotPaths

\* C19: the digest of a file that was hashed is the digest of its bytes
\* alone: after a successful scan during which the filesystem did not change,
\* every File entry of a file that was opened has the sum of a hasher that
\* was given the contents of that file and nothing else, whatever was hashed
\* before it and whatever the hasher held when Scan was called.
C19_DigestOfBytes ==
    Success /\ ret.startV = fsVersion =>
        \A x \in Snapshot :
            x[2].kind = "File" /\ x[1] \in opened =>
                x[2].digest = HashSum(HashWrite(<<>>, fs[x[1]].content))

\* A successful second scan that hashed two files, one after the other, with
\* the hasher the first scan had hashed files with.
C19_Witness ==
    /\ Success
    /\ ret.startV = fsVersion
    /\ numScans = 2
    /\ prev.ret.err = ""
    /\ prev.reused = {}
    /\ DOMAIN prev.ret.cache # {}
    /\ hasher # <<>>
    /\ {<<"a">>, <<"d", "a">>} \subseteq FilePaths \cap opened

\* The path or a directory above it, the root apart, is ignored.
UnderIgnored(path) ==
    \E i \in 1..Len(path) : ignored(ignores, SubSeq(path, 1, i))

\* C21: nothing at or below an ignored path is visited: no directory there
\* is listed, nothing there is given to lstat, opened or read as a link, and
\* a successful scan has no such path in the snapshot or the cache, whether
\* or not the ignorer matches the path itself.  The root is scanned whatever
\* the ignorer says of the empty path and whatever its size.
C21_NoDescent ==
    /\ \A i \in 1..Len(stack) : ~UnderIgnored(stack[i].path)
    /\ \A path \in DOMAIN lstatLog \cup DOMAIN statLog \cup opened \cup vanished
                    \cup DOMAIN newCache :
            ~UnderIgnored(path)
    /\ pc \in {"open", "readlink"} => ~UnderIgnored(pending.path)
    /\ Success =>
        /\ \A path \in SnapshotPaths \cup DOMAIN ret.cache : ~UnderIgnored(path)
        /\ rootStat \in {"file", "dir"} => <<>> \in SnapshotPaths
        /\ rootStat = "file" => <<>> \in DOMAIN ret.cache

\* A successful scan of an unchanged tree that has the file "a" and nothing
\* of the ignored directory "d", whose file "a" the ignorer does not match.
C21_Witness ==
    /\ Success
    /\ ret.startV = fsVersion
    /\ fs[<<"d">>].kind = "dir"
    /\ fs[<<"d", "a">>].kind = "file"
    /\ ignored(ignores, <<"d">>)
    /\ ~ignored(ignores, <<"d", "a">>)
    /\ <<"a">> \in FilePaths
    /\ SnapshotPaths = {<<>>, <<"a">>}
    /\ DOMAIN ret.cache = {<<"a">>}

\* A successful scan of a root that is a file of the size of the limit, with
\* an ignorer that matches the empty path.
C21_WitnessRoot ==
    /\ Success
    /\ ignored(ignores, <<>>)
    /\ ignoreSize > 0
    /\ <<>> \in DOMAIN statLog
    /\ statLog[<<>>].size >= ignoreSize
    /\ FilePaths = {<<>>}

----------------------------------------------------------------------------
(* Properties of reconnect. *)

\* C6: when reconnect has returned the cancellation error while connect was
\* still running, an endpoint that connect makes afterwards is closed: the
\* goroutine never ends with it open, and an open one is closed in the end.
C6_LateEndpointClosed ==
    /\ [](\A k \in Calls :
            callerRet[k].inFlight /\ goPc[k] = "done" => endpoints[k] # "open")
    /\ \A k \in Calls :
            (callerRet[k].inFlight /\ endpoints[k] = "open") ~> (endpoints[k] = "closed")

\* reconnect returned the cancellation error while connect was running, and
\* the endpoint connect made afterwards has been closed.
C6_Witness ==
    \E k \in Calls :
        /\ callerRet[k].error = "reconnect cancelled"
        /\ callerRet[k].inFlight
        /\ endpoints[k] = "closed"

\* C7: once the context is cancelled, a waiting reconnect can return at once,
\* whatever connect is doing, and it does return, even when the dial never
\* does.
C7_CancelledReturns ==
    /\ [](\A k \in Calls :
            callerPc[k] = "waiting" /\ ctxDone => ENABLED ReconnectCancelled(k))
    /\ \A k \in Calls :
            (callerPc[k] = "waiting" /\ ctxDone) ~> (callerPc[k] = "returned")

\* reconnect has returned the cancellation error and the dial has not
\* returned.
C7_Witness ==
    \E k \in Calls :
        /\ urls[k] = "SSH"
        /\ callerRet[k].error = "reconnect cancelled"
        /\ goPc[k] = "connect"
        /\ dials[k] = 0

\* connect has returned in the goroutine of call k.
ConnectReturned(k) == goPc[k] \in {"select", "done"}

\* C17: connect makes a local endpoint without a dial for a Local URL; for an
\* SSH URL it dials once and then makes a remote endpoint; for any other
\* protocol it returns no endpoint and an error with the protocol in it, and
\* does not dial.  With an error there is never an endpoint.
C17_ProtocolDispatch ==
    \A k \in Calls :
        /\ goPc[k] = "dialed" => urls[k] = "SSH" /\ dials[k] = 1
        /\ ConnectReturned(k) =>
            LET res == goResult[k] IN
            /\ res.error # "" <=> res.endpoint = NilEndpoint
            /\ urls[k] = "Local" =>
                /\ dials[k] = 0
                /\ res.endpoint \in {NilEndpoint, "local endpoint"}
            /\ urls[k] = "SSH" =>
                /\ dials[k] = 1
                /\ res.endpoint \in {NilEndpoint, "remote endpoint"}
            /\ urls[k] \notin {"Local", "SSH"} =>
                /\ dials[k] = 0
                /\ res.endpoint = NilEndpoint
                /\ res.error = "unknown protocol: " \o urls[k]

\* connect has made a remote endpoint after a dial in one call, and has
\* refused a custom URL in the next.
C17_Witness ==
    /\ urls = <<"SSH", "Custom">>
    /\ ConnectReturned(1) /\ ConnectReturned(2)
    /\ goResult[1].endpoint = "remote endpoint"
    /\ dials = <<1, 0>>
    /\ goResult[2] = ConnectResult(NilEndpoint, "unknown protocol: Custom")

\* The endpoint connect made in call k was returned by reconnect, and it was
\* closed by the goroutine.
HandedOver(k) ==
    callerPc[k] = "returned" /\ callerRet[k].endpoint = goResult[k].endpoint
Closed(k) == endpoints[k] = "closed"

\* C20: an endpoint that connect made is, once the goroutine has ended,
\* either returned by reconnect or closed, and never both; an endpoint that
\* reconnect returned is never closed; and the goroutine ends once connect
\* has returned, whatever reconnect and the context do.
C20_OneFate ==
    /\ [](\A k \in Calls :
            /\ goPc[k] = "done" /\ goResult[k].endpoint # NilEndpoint =>
                (HandedOver(k) /\ ~Closed(k)) \/ (~HandedOver(k) /\ Closed(k))
            /\ callerRet[k].endpoint # NilEndpoint => endpoints[k] = "open"
            /\ Closed(k) => goPc[k] = "done" /\ callerRet[k].endpoint = NilEndpoint)
    /\ \A k \in Calls : (goPc[k] = "select") ~> (goPc[k] = "done")

\* Both goroutines have ended: the endpoint of the first call was returned and
\* is open, the endpoint of the second call was closed.
C20_Witness ==
    /\ goPc = <<"done", "done">>
    /\ callerRet[1].endpoint # NilEndpoint
    /\ callerRet[2].endpoint = NilEndpoint
    /\ endpoints = <<"open", "closed">>

----------------------------------------------------------------------------
(* Properties of the symlink normalizer. *)

NormalizerCalled == normalized \notin {NotNormalized, Normalized(NoTarget, "skipped")}

\* C11: in every mode that reaches it, the normalizer returns an error for a
\* target with a backslash in it, and a target it accepts is returned as it
\* was given.
C11_BackslashRejected ==
    NormalizerCalled =>
        /\ Contains(linkTarget, "\\") => normalized.err # ""
        /\ normalized.err = "" => normalized.target = linkTarget

\* The normalizer has refused, in POSIXRaw mode, a target that has a
\* backslash and nothing else Portable mode would refuse.
C11_Witness ==
    /\ NormalizerCalled
    /\ symlinkMode = "POSIXRaw"
    /\ linkTarget = <<"a", "\\", "a">>
    /\ normalized.err # ""

----------------------------------------------------------------------------
(* Properties of Parse and Format. *)

\* C12: the URL Parse returned, formatted and parsed again, is there again:
\* the second Parse succeeds and gives the same protocol, user, host, port
\* and path.
C12_RoundTrip ==
    urlPc = "reparsed" =>
        /\ reparsed.ok
        /\ reparsed.url.protocol = parsed.url.protocol
        /\ reparsed.url.user = parsed.url.user
        /\ reparsed.url.host = parsed.url.host
        /\ reparsed.url.port = parsed.url.port
        /\ reparsed.url.path = parsed.url.path

\* The value of a string of digits, as far as it matters: MaxPort + 1 stands
\* for every larger value.
RECURSIVE ValueOf(_)
ValueOf(digits) ==
    IF digits = <<>> THEN 0
    ELSE LET high == ValueOf(Before(digits, Len(digits)))
             n == high * 10 + DigitValue(digits[Len(digits)])
         IN  IF n > MaxPort THEN MaxPort + 1 ELSE n

\* Where the colon that ends the host of the parsed URL is in the raw
\* string: after the host, which follows the first "@" when there is one.
HostColon(str, u) ==
    (IF \E i \in 1..Len(str) : str[i] = "@"
     THEN CHOOSE i \in 1..Len(str) : str[i] = "@" /\ \A j \in 1..i - 1 : str[j] # "@"
     ELSE 0) + Len(u.host) + 1

\* The component between the start of a tail and its first colon is a port.
IsPort(component) ==
    /\ component # <<>>
    /\ \A i \in 1..Len(component) : component[i] \in Digits
    /\ ValueOf(component) <= MaxPort

\* C13: for a raw string parsed as SSH, the component between the colon of
\* the host and the next colon is the port exactly when it is not empty, is
\* made of decimal digits and has a value of at most 65535, and the path is
\* then what follows the second colon; otherwise the port is 0 and the path
\* is all that follows the colon of the host.
C13_PortExtraction ==
    urlPc \in {"parsed", "formatted", "reparsed"} /\ parsed.url.protocol = "SSH" =>
        LET colon == HostColon(raw, parsed.url)
            tail == After(raw, colon)
            second == Index(tail, ":")
        IN  /\ colon <= Len(raw)
            /\ raw[colon] = ":"
            /\ SubSeq(raw, colon - Len(parsed.url.host), colon - 1) = parsed.url.host
            /\ IF second # 0 /\ IsPort(Before(tail, second))
               THEN /\ parsed.url.port = ValueOf(Before(tail, second))
                    /\ parsed.url.path = After(tail, second)
               ELSE /\ parsed.url.port = 0
                    /\ parsed.url.path = tail

\* Parse has taken the largest port from a raw string.
C13_Witness ==
    /\ urlPc = "parsed"
    /\ raw = <<"u", "@", "h", ":", "6", "5", "5", "3", "5", ":", "p">>
    /\ parsed.url.port = MaxPort
    /\ parsed.url.path = <<"p">>

====
